---- MODULE Spec2Model ----
(***************************************************************************)
(* Network telemetry pipeline of metricsIntegration.ts (class Metrics):    *)
(* the per-session observer monitorNetworkTraffic, the trace store         *)
(* directory, and mergeNetworkTraces with its nested extendJsonWithErrors. *)
(***************************************************************************)
EXTENDS Integers, Sequences, FiniteSets, TLC

\* ------------------------------------------------------------------------
\* Bounds of the model
\* ------------------------------------------------------------------------
NumSessions == 2        \* pages that monitorNetworkTraffic may be attached to
MaxExchanges == 2       \* finished network exchanges over all sessions
MaxTime == 1            \* last value Date.now() takes
MaxMerges == 2          \* calls of mergeNetworkTraces
MaxStoreFiles == 2      \* files put in the trace store by the environment
MaxRecords == 3         \* request records over all those files
MaxPortCalls == 3       \* getFreeDebugPort calls that return
MaxJsonCalls == 3       \* readJsonSafely and writeJsonSafely calls

Sessions == 1..NumSessions

\* ------------------------------------------------------------------------
\* JavaScript values: a property is missing, undefined, null or has a value
\* ------------------------------------------------------------------------
Missing == <<"missing">>
Undefined == <<"undefined">>
Null == <<"null">>
Val(v) == <<"val", v>>
HasVal(x) == x[1] = "val"
\* x == null in JavaScript: true of null and of undefined (also a missing property)
IsNullish(x) == x[1] # "val"

\* String.prototype.includes on strings modelled as sequences of characters
Includes(s, sub) ==
    \E i \in 0..(Len(s) - Len(sub)) : SubSeq(s, i + 1, i + Len(sub)) = sub

\* ------------------------------------------------------------------------
\* Configuration (molly.config.ts)
\* ------------------------------------------------------------------------
GraphqlMarker == <<"g", "r", "a", "p", "h", "q", "l">>
URLQuery == {GraphqlMarker}
threshold_ms == 2000

\* ------------------------------------------------------------------------
\* Inputs of the observer
\* ------------------------------------------------------------------------
UrlGql == <<"/">> \o GraphqlMarker
UrlRest == <<"/", "a">>
UrlNear == <<"/", "g", "r", "a", "p", "h", "q">>
\* finished exchanges: url, status code, responseEnd - requestStart, postDataJSON()
Exchanges ==
    {[url |-> UrlGql, status |-> 200, time |-> threshold_ms, postData |-> Null],
     [url |-> UrlGql, status |-> 200, time |-> threshold_ms + 1,
      postData |-> Val([operationName |-> Val("opA")])],
     [url |-> UrlGql, status |-> 500, time |-> threshold_ms - 1,
      postData |-> Val([operationName |-> Val("opA")])],
     [url |-> UrlNear, status |-> 500, time |-> threshold_ms + 1, postData |-> Null]}
Headers == "headers"
BodyOk == <<"o", "k">>

RoleUser == <<"U", "s", "e", "r">>
RoleAB == <<"a", "_", "b">>
Roles == {RoleUser, RoleAB}

\* Date.now() printed in a template literal
TsStr(t) == <<"0", "1", "2", "3", "4", "5", "6", "7", "8", "9">>[t + 1]
\* `${role}_metrics_report_${Date.now()}.json`
FileNameOf(role, t) == role \o <<"_", "metrics", "_", "report", "_", TsStr(t), ".json">>

\* ------------------------------------------------------------------------
\* State
\* ------------------------------------------------------------------------
VARIABLES
    now,            \* Date.now()
    monitored,      \* monitored[s]: monitorNetworkTraffic was called on the page
    fileName,       \* fileName[s]: const fileName of the call
    collectedData,  \* collectedData[s]: the closure's CollectedData
    exch,           \* exch[s]: the requestfinished handler instances, in event order
    closed,         \* closed[s]: the page's close event was emitted
    trace,          \* trace[s]: what the close handler wrote, Missing if nothing
    log,            \* messages given to MollyHelper.log
    dirExists,      \* networkMetricsSavePath exists
    files,          \* files of networkMetricsSavePath: name -> parsed content
    readdir,        \* the files the last mergeNetworkTraces call listed, in its order
    merges,         \* number of mergeNetworkTraces calls made
    mergeOutcome,   \* how the last call ended: returned, TypeError, writeFailed
    reports,        \* merged reports written to mergedNetworkMetricsReportPath
    usedPorts,      \* usedPortsSet
    portPc,         \* a getFreeDebugPort call: idle, or in its do-while loop
    returnedPorts,  \* the ports getFreeDebugPort calls returned, in order
    jsonFile,       \* the file of readJsonSafely/writeJsonSafely: missing, valid, corrupt
    lockHeld,       \* the lock `${filePath}.lock` is held
    jsonPc,         \* a readJsonSafely/writeJsonSafely call: idle, or past its lock
    jsonResults     \* how the calls ended, in order

vars == <<now, monitored, fileName, collectedData, exch, closed, trace, log,
          dirExists, files, readdir, merges, mergeOutcome, reports,
          usedPorts, portPc, returnedPorts, jsonFile, lockHeld, jsonPc, jsonResults>>
helperVars == <<usedPorts, portPc, returnedPorts, jsonFile, lockHeld, jsonPc, jsonResults>>
obsVars == <<now, monitored, fileName, collectedData, exch, closed, trace>>
mergeVars == <<readdir, merges, mergeOutcome, reports>>

\* a number that may be a quotient: totalTime / totalRequests
RECURSIVE Gcd(_, _)
Gcd(a, b) == IF b = 0 THEN a ELSE Gcd(b, a % b)
Quot(a, b) ==
    IF b = 0 THEN [num |-> IF a = 0 THEN 0 ELSE 1, den |-> 0]
    ELSE [num |-> a \div Gcd(a, b), den |-> b \div Gcd(a, b)]

EmptyCollectedData ==
    [overallInformation |->
        [avgResponseTime |-> Quot(0, 1), totalRequests |-> 0, totalTime |-> 0, contextTime |-> 0],
     requests |-> <<>>]

\* URLQuery.some(query => url.includes(query))
MatchesFilter(url) == \E query \in URLQuery : Includes(url, query)
\* statusCode != 200 || responseTime > threshold_ms
SlowOrFailed(statusCode, responseTime) ==
    statusCode # 200 \/ responseTime > threshold_ms

RECURSIVE SumLen(_, _)
SumLen(f, n) == IF n = 0 THEN 0 ELSE Len(f[n]) + SumLen(f, n - 1)
NumExchanges == SumLen(exch, NumSessions)

\* JSON.stringify followed by JSON.parse: a property holding undefined is left out
Jsonify(x) == IF x = Undefined THEN Missing ELSE x
JsonRecord(r) ==
    [r EXCEPT !.requestBody = Jsonify(@), !.responseBody = Jsonify(@),
              !.responseStatusCode = Jsonify(@)]
JsonTrace(cd) ==
    Val([overallInformation |-> Val(cd.overallInformation),
         requests |-> Val([k \in 1..Len(cd.requests) |-> JsonRecord(cd.requests[k])])])

Unparseable == <<"unparseable">>

\* fs.writeFileSync(path.join(dir, name), text)
WriteFile(fs, name, content) ==
    [n \in DOMAIN fs \cup {name} |-> IF n = name THEN content ELSE fs[n]]

\* ------------------------------------------------------------------------
\* Session observer: monitorNetworkTraffic
\* ------------------------------------------------------------------------
\* the call itself: collectedData, fileName from Date.now(), and the two
\* page.on registrations; t is what Date.now() returns, never less than before
MonitorNetworkTraffic(s, role, t) ==
    /\ ~monitored[s]
    /\ \A u \in Sessions : u < s => monitored[u]
    /\ t >= now
    /\ now' = t
    /\ monitored' = [monitored EXCEPT ![s] = TRUE]
    /\ fileName' = [fileName EXCEPT ![s] = FileNameOf(role, t)]
    /\ collectedData' = [collectedData EXCEPT ![s] = EmptyCollectedData]
    /\ UNCHANGED <<exch, closed, trace, log, dirExists, files, mergeVars, helperVars>>

\* the page emits requestfinished: the async handler starts and awaits data.response()
RequestFinished(s, x) ==
    /\ monitored[s] /\ ~closed[s]
    /\ NumExchanges < MaxExchanges
    /\ exch' = [exch EXCEPT ![s] = Append(@,
            [url |-> x.url, status |-> x.status, time |-> x.time, postData |-> x.postData,
             pc |-> "response", body |-> Undefined])]
    /\ UNCHANGED <<now, monitored, fileName, collectedData, closed, trace, log,
                   dirExists, files, mergeVars, helperVars>>

\* variant: only the time is accumulated
AddTotals_TimeOnly(cd, responseTime) ==
    [cd EXCEPT !.overallInformation.totalTime = @ + responseTime]

AddTotals(cd, responseTime) ==
    [cd EXCEPT !.overallInformation.totalRequests = @ + 1,
               !.overallInformation.totalTime = @ + responseTime]

\* variant: the counters are updated before the URL filter is looked at
ResponseResolved_CountAll(s, i) ==
    /\ i \in 1..Len(exch[s]) /\ exch[s][i].pc = "response"
    /\ LET e == exch[s][i]
       IN /\ collectedData' = [collectedData EXCEPT ![s] = AddTotals(@, e.time)]
          /\ exch' = [exch EXCEPT ![s][i].pc =
                IF MatchesFilter(e.url) /\ SlowOrFailed(e.status, e.time)
                THEN "body" ELSE "done"]
    /\ UNCHANGED <<now, monitored, fileName, closed, trace, log, dirExists, files,
                   mergeVars, helperVars>>

\* data.response() resolved: the counters, then the decision to record
ResponseResolved(s, i) ==
    /\ i \in 1..Len(exch[s]) /\ exch[s][i].pc = "response"
    /\ LET e == exch[s][i]
           responseTime == e.time
       IN /\ collectedData' = [collectedData EXCEPT ![s] =
                IF MatchesFilter(e.url) THEN AddTotals(@, responseTime) ELSE @]
          /\ exch' = [exch EXCEPT ![s][i].pc =
                IF MatchesFilter(e.url) /\ SlowOrFailed(e.status, responseTime)
                THEN "body" ELSE "done"]
    /\ UNCHANGED <<now, monitored, fileName, closed, trace, log, dirExists, files,
                   mergeVars, helperVars>>

\* data.response() rejected because the page is gone: the handler ends in a
\* TypeError (e.includes of an Error, or response.status() of undefined)
ResponseRejected(s, i) ==
    /\ i \in 1..Len(exch[s]) /\ exch[s][i].pc = "response"
    /\ closed[s]
    /\ exch' = [exch EXCEPT ![s][i].pc = "threw"]
    /\ UNCHANGED <<now, monitored, fileName, collectedData, closed, trace, log,
                   dirExists, files, mergeVars, helperVars>>

\* (await response.body()).toString('utf8')
BodyResolved(s, i, text) ==
    /\ i \in 1..Len(exch[s]) /\ exch[s][i].pc = "body"
    /\ exch' = [exch EXCEPT ![s][i].pc = "headers", ![s][i].body = Val(text)]
    /\ UNCHANGED <<now, monitored, fileName, collectedData, closed, trace, log,
                   dirExists, files, mergeVars, helperVars>>

\* variant: the catch block logs and returns
BodyRejected_Returns(s, i) ==
    /\ i \in 1..Len(exch[s]) /\ exch[s][i].pc = "body"
    /\ exch' = [exch EXCEPT ![s][i].pc = "done"]
    /\ log' = log \cup {<<"warn", "Could not get response Buffer", s, i>>}
    /\ UNCHANGED <<now, monitored, fileName, collectedData, closed, trace,
                   dirExists, files, mergeVars, helperVars>>

\* response.body() threw: the catch block logs and the handler goes on
BodyRejected(s, i) ==
    /\ i \in 1..Len(exch[s]) /\ exch[s][i].pc = "body"
    /\ exch' = [exch EXCEPT ![s][i].pc = "headers"]
    /\ log' = log \cup {<<"warn", "Could not get response Buffer", s, i>>}
    /\ UNCHANGED <<now, monitored, fileName, collectedData, closed, trace,
                   dirExists, files, mergeVars, helperVars>>

DataObject(e) ==
    [statusCode |-> e.status,
     requestUrl |-> e.url,
     requestHeaders |-> Headers,
     requestBody |-> e.postData,
     responseUrl |-> e.url,
     responseHeaders |-> Headers,
     responseBody |-> e.body,
     responseTime |-> e.time,
     responseStatusCode |-> Undefined]

\* allHeaders(), postDataJSON() and response.allHeaders() returned: the push
HeadersResolved(s, i) ==
    /\ i \in 1..Len(exch[s]) /\ exch[s][i].pc = "headers"
    /\ collectedData' = [collectedData EXCEPT ![s].requests = Append(@, DataObject(exch[s][i]))]
    /\ exch' = [exch EXCEPT ![s][i].pc = "done"]
    /\ UNCHANGED <<now, monitored, fileName, closed, trace, log, dirExists, files,
                   mergeVars, helperVars>>

\* one of them threw: the handler ends without the push
HeadersRejected(s, i) ==
    /\ i \in 1..Len(exch[s]) /\ exch[s][i].pc = "headers"
    /\ exch' = [exch EXCEPT ![s][i].pc = "threw"]
    /\ UNCHANGED <<now, monitored, fileName, collectedData, closed, trace, log,
                   dirExists, files, mergeVars, helperVars>>

\* variant: the close handler looks at the counter instead of the list
HasRequests_Counted(cd) == cd.overallInformation.totalRequests > 0

\* collectedData.requests[0] !== undefined
HasRequests(cd) == Len(cd.requests) > 0

WithAverage(cd) ==
    [cd EXCEPT !.overallInformation.avgResponseTime =
        Quot(cd.overallInformation.totalTime, cd.overallInformation.totalRequests)]

\* the page emits close: the close handler
PageClose(s) ==
    /\ monitored[s] /\ ~closed[s]
    /\ closed' = [closed EXCEPT ![s] = TRUE]
    /\ IF HasRequests(collectedData[s])
       THEN /\ collectedData' = [collectedData EXCEPT ![s] = WithAverage(@)]
            /\ IF dirExists
               THEN /\ files' = WriteFile(files, fileName[s], JsonTrace(WithAverage(collectedData[s])))
                    /\ trace' = [trace EXCEPT ![s] = JsonTrace(WithAverage(collectedData[s]))]
                    /\ log' = log \cup {<<"info", "Saving started", s, 0>>,
                                         <<"success", "Metrics saved", s, 0>>}
               ELSE /\ log' = log \cup {<<"info", "Saving started", s, 0>>}
                    /\ UNCHANGED <<files, trace>>
       ELSE /\ log' = log \cup {<<"info", "No data to save", s, 0>>}
            /\ UNCHANGED <<collectedData, files, trace>>
    /\ UNCHANGED <<now, monitored, fileName, exch, dirExists, mergeVars, helperVars>>

InitHelper ==
    /\ usedPorts = {}
    /\ portPc = "idle"
    /\ returnedPorts = <<>>
    /\ jsonFile = "missing"
    /\ lockHeld = FALSE
    /\ jsonPc = "idle"
    /\ jsonResults = <<>>

InitPipeline ==
    /\ now = 0
    /\ monitored = [s \in Sessions |-> FALSE]
    /\ fileName = [s \in Sessions |-> <<>>]
    /\ collectedData = [s \in Sessions |-> EmptyCollectedData]
    /\ exch = [s \in Sessions |-> <<>>]
    /\ closed = [s \in Sessions |-> FALSE]
    /\ trace = [s \in Sessions |-> Missing]
    /\ log = {}
    /\ dirExists = TRUE
    /\ files = <<>>
    /\ readdir = <<>>
    /\ merges = 0
    /\ mergeOutcome = "none"
    /\ reports = <<>>

InitObserver == InitPipeline /\ InitHelper

\* the observer of one page
OnePage == {s \in Sessions : \A u \in Sessions : s <= u}

NextObserver ==
    \/ \E s \in OnePage, role \in Roles, t \in 0..MaxTime : MonitorNetworkTraffic(s, role, t)
    \/ \E s \in OnePage, x \in Exchanges : RequestFinished(s, x)
    \/ \E s \in OnePage, i \in 1..MaxExchanges : ResponseResolved(s, i)
    \/ \E s \in OnePage, i \in 1..MaxExchanges : ResponseRejected(s, i)
    \/ \E s \in OnePage, i \in 1..MaxExchanges : BodyResolved(s, i, BodyOk)
    \/ \E s \in OnePage, i \in 1..MaxExchanges : BodyRejected(s, i)
    \/ \E s \in OnePage, i \in 1..MaxExchanges : HeadersResolved(s, i)
    \/ \E s \in OnePage, i \in 1..MaxExchanges : HeadersRejected(s, i)
    \/ \E s \in OnePage : PageClose(s)

SpecObserver == InitObserver /\ [][NextObserver]_vars

\* several pages monitored into one store, each with qualifying exchanges whose
\* reads all succeed
SlowExchange ==
    [url |-> UrlGql, status |-> 200, time |-> threshold_ms + 1,
     postData |-> Val([operationName |-> Val("opA")])]

NextSessions ==
    \/ \E s \in Sessions, role \in Roles, t \in 0..MaxTime : MonitorNetworkTraffic(s, role, t)
    \/ \E s \in Sessions : RequestFinished(s, SlowExchange)
    \/ \E s \in Sessions, i \in 1..MaxExchanges : ResponseResolved(s, i)
    \/ \E s \in Sessions, i \in 1..MaxExchanges : BodyResolved(s, i, BodyOk)
    \/ \E s \in Sessions, i \in 1..MaxExchanges : HeadersResolved(s, i)
    \/ \E s \in Sessions : PageClose(s)

SpecSessions == InitObserver /\ [][NextSessions]_vars

\* ------------------------------------------------------------------------
\* Merge engine: mergeNetworkTraces, the per-file loop
\* ------------------------------------------------------------------------
\* reading a property: a missing one reads as undefined
Read(x) == IF x = Missing THEN Undefined ELSE x

\* file.split('_')[0]
SplitRole(file) ==
    LET us == {i \in 1..Len(file) : file[i] = "_"}
        first == CHOOSE i \in us : \A j \in us : i <= j
    IN IF us = {} THEN file ELSE SubSeq(file, 1, first - 1)

\* index of the key in an object kept as a sequence in insertion order, 0 if none
KeyIndex(entries, key) ==
    IF \E k \in 1..Len(entries) : entries[k].key = key
    THEN CHOOSE k \in 1..Len(entries) : entries[k].key = key
    ELSE 0

\* the property name request.requestBody.operationName is turned into
OperationKey(requestBody) ==
    LET name == Read(requestBody[2].operationName)
    IN IF HasVal(name) THEN name[2] ELSE name[1]

\* variant: the copy keeps the responseStatusCode the trace file carried, if any
BucketCopy_KeepsFileCode(request) ==
    [statusCode |-> request.statusCode,
     requestUrl |-> request.requestUrl,
     requestHeaders |-> request.requestHeaders,
     requestBody |-> Read(request.requestBody),
     responseUrl |-> request.responseUrl,
     responseHeaders |-> request.responseHeaders,
     responseBody |-> request.responseBody,
     responseTime |-> request.responseTime,
     responseStatusCode |-> IF HasVal(request.responseStatusCode)
                            THEN request.responseStatusCode
                            ELSE Val(request.statusCode)]

\* the object literal pushed into a bucket
BucketCopy(request) ==
    [statusCode |-> request.statusCode,
     requestUrl |-> request.requestUrl,
     requestHeaders |-> request.requestHeaders,
     requestBody |-> Read(request.requestBody),
     responseUrl |-> request.responseUrl,
     responseHeaders |-> request.responseHeaders,
     responseBody |-> request.responseBody,
     responseTime |-> request.responseTime,
     responseStatusCode |-> Val(request.statusCode)]

PushOperation(operations, key, copy) ==
    LET k == KeyIndex(operations, key)
    IN IF k = 0
       THEN Append(operations, [key |-> key, requests |-> <<copy>>])
       ELSE [operations EXCEPT ![k].requests = Append(@, copy)]

\* variant: a record without a response body is routed like any other
MergeRequest_KeepsBodyless(roles, r, request) ==
    IF Includes(request.requestUrl, GraphqlMarker)
    THEN IF IsNullish(request.requestBody) THEN roles
         ELSE [roles EXCEPT ![r].gql.operations =
                    PushOperation(@, OperationKey(request.requestBody), BucketCopy(request))]
    ELSE [roles EXCEPT ![r].rest.requests = Append(@, BucketCopy(request))]

\* variant: a graphql record without a request body falls through to rest
MergeRequest_BodylessToRest(roles, r, request) ==
    IF IsNullish(request.responseBody) THEN roles
    ELSE IF Includes(request.requestUrl, GraphqlMarker) /\ ~IsNullish(request.requestBody)
    THEN [roles EXCEPT ![r].gql.operations =
                PushOperation(@, OperationKey(request.requestBody), BucketCopy(request))]
    ELSE [roles EXCEPT ![r].rest.requests = Append(@, BucketCopy(request))]

\* one turn of `for (const request of metrics.requests)` for the role at index r
MergeRequest(roles, r, request) ==
    IF IsNullish(request.responseBody) THEN roles
    ELSE IF Includes(request.requestUrl, GraphqlMarker)
    THEN IF IsNullish(request.requestBody) THEN roles
         ELSE [roles EXCEPT ![r].gql.operations =
                    PushOperation(@, OperationKey(request.requestBody), BucketCopy(request))]
    ELSE [roles EXCEPT ![r].rest.requests = Append(@, BucketCopy(request))]

RECURSIVE MergeRequests(_, _, _)
MergeRequests(roles, r, requests) ==
    IF requests = <<>> THEN roles
    ELSE MergeRequests(MergeRequest(roles, r, Head(requests)), r, Tail(requests))

\* variant: an existing role takes the overallInformation of the later file
SeedRole_Overwrite(roles, role, metrics) ==
    IF KeyIndex(roles, role) # 0
    THEN [roles EXCEPT ![KeyIndex(roles, role)].overallInformation =
                Read(metrics.overallInformation)]
    ELSE Append(roles, [key |-> role,
                        overallInformation |-> Read(metrics.overallInformation),
                        gql |-> [operations |-> <<>>],
                        rest |-> [requests |-> <<>>]])

\* if (!mergedMetrics.roles[role]) { ... }
SeedRole(roles, role, metrics) ==
    IF KeyIndex(roles, role) # 0 THEN roles
    ELSE Append(roles, [key |-> role,
                        overallInformation |-> Read(metrics.overallInformation),
                        gql |-> [operations |-> <<>>],
                        rest |-> [requests |-> <<>>]])

MergeLog(msg) == <<"warn", msg, 0, 0>>

\* variant: JSON.parse is not guarded by try/catch
MergeFile_NoCatch(m, file, content) ==
    IF m.threw THEN m
    ELSE IF content = Unparseable \/ content = Null
    THEN [m EXCEPT !.threw = TRUE]
    ELSE LET metrics == content[2]
             role == SplitRole(file)
             seeded == SeedRole(m.roles, role, metrics)
         IN IF IsNullish(metrics.requests)
            THEN [m EXCEPT !.roles = seeded]
            ELSE [m EXCEPT !.roles = MergeRequests(seeded, KeyIndex(seeded, role),
                                                   metrics.requests[2])]

\* the callback of files.forEach, on the state m = [roles, threw, log] of the loop
MergeFile(m, file, content) ==
    IF m.threw THEN m
    ELSE IF content = Unparseable
    THEN [m EXCEPT !.log = @ \cup {MergeLog("Cannot parse")}]
    ELSE IF content = Null
    THEN [m EXCEPT !.threw = TRUE]
    ELSE LET metrics == content[2]
             role == SplitRole(file)
             seeded == SeedRole(m.roles, role, metrics)
         IN IF IsNullish(metrics.requests)
            THEN [m EXCEPT !.roles = seeded, !.log = @ \cup {MergeLog("No requests found.")}]
            ELSE [m EXCEPT !.roles = MergeRequests(seeded, KeyIndex(seeded, role),
                                                   metrics.requests[2]),
                           !.log = @ \cup
                               IF \E k \in 1..Len(metrics.requests[2]) :
                                      IsNullish(metrics.requests[2][k].responseBody)
                               THEN {MergeLog("Metrics files include requests with no response bodies!")}
                               ELSE {}]

\* files.forEach over the names in the order readdirSync gave them
RECURSIVE MergeFiles(_, _, _)
MergeFiles(m, fs, order) ==
    IF order = <<>> THEN m
    ELSE MergeFiles(MergeFile(m, Head(order), fs[Head(order)]), fs, Tail(order))

\* ------------------------------------------------------------------------
\* Error classifier: extendJsonWithErrors
\* ------------------------------------------------------------------------
\* JSON.parse(JSON.stringify(initialJson))
DeepCopyRole(role) ==
    [key |-> role.key,
     overallInformation |-> Jsonify(role.overallInformation),
     gql |-> [operations |->
        [k \in 1..Len(role.gql.operations) |->
            [key |-> role.gql.operations[k].key,
             requests |-> [j \in 1..Len(role.gql.operations[k].requests) |->
                              JsonRecord(role.gql.operations[k].requests[j])]]]],
     rest |-> [requests |-> [j \in 1..Len(role.rest.requests) |->
                                JsonRecord(role.rest.requests[j])]]]
DeepCopy(roles) == [k \in 1..Len(roles) |-> DeepCopyRole(roles[k])]

\* JSON.stringify of a string
Stringify(text) == <<"\"">> \o text \o <<"\"">>
ErrorWord == <<"e", "r", "r", "o", "r">>

\* JSON.stringify(request.responseBody).includes('error') || request.responseStatusCode != 200
GqlHasError(request) ==
    Includes(Stringify(request.responseBody[2]), ErrorWord) \/ request.responseStatusCode[2] # 200

\* if (request.responseBody): a non-empty string
Truthy(body) == HasVal(body) /\ body[2] # <<>>

RECURSIVE SeqToCounts(_)
\* statusCodeCounts: status code -> number of occurrences in the array
SeqToCounts(codes) ==
    IF codes = <<>> THEN <<>>
    ELSE LET rest == SeqToCounts(Tail(codes))
             c == Head(codes)
         IN [x \in DOMAIN rest \cup {c} |->
                (IF x \in DOMAIN rest THEN rest[x] ELSE 0) + (IF x = c THEN 1 ELSE 0)]

RECURSIVE Ascending(_)
\* Object.keys of an object with integer keys: ascending numeric order
Ascending(S) ==
    IF S = {} THEN <<>>
    ELSE LET m == CHOOSE x \in S : \A y \in S : x <= y
         IN <<m>> \o Ascending(S \ {m})

RECURSIVE ReduceMax_KeepsEarlier(_, _, _)
\* variant: on a tie the reduction keeps the earlier element
ReduceMax_KeepsEarlier(a, xs, counts) ==
    IF xs = <<>> THEN a
    ELSE ReduceMax_KeepsEarlier(IF counts[a] >= counts[Head(xs)] THEN a ELSE Head(xs),
                                Tail(xs), counts)

RECURSIVE ReduceMax(_, _, _)
\* xs.reduce((a, b) => statusCodeCounts[a] > statusCodeCounts[b] ? a : b) continued from a
ReduceMax(a, xs, counts) ==
    IF xs = <<>> THEN a
    ELSE ReduceMax(IF counts[a] > counts[Head(xs)] THEN a ELSE Head(xs), Tail(xs), counts)

\* let mostCommonStatusCode = null; if (keys.length > 0) { ...reduce... }
MostCommon(counts) ==
    LET keys == Ascending(DOMAIN counts)
    IN IF Len(keys) > 0 THEN <<"str", ReduceMax(Head(keys), Tail(keys), counts)>> ELSE Null

SetEntry(entries, key, value) ==
    LET k == KeyIndex(entries, key)
    IN IF k = 0 THEN Append(entries, [key |-> key] @@ value)
       ELSE [entries EXCEPT ![k] = [key |-> key] @@ value]

\* variant: the frequency map is built over all requests of the operation
GqlEntry_CountsAll(requests) ==
    LET errorStatusCodesArray == [k \in 1..Len(requests) |-> requests[k].responseStatusCode[2]]
        statusCodeCounts == SeqToCounts(errorStatusCodesArray)
    IN [count |-> Len(errorStatusCodesArray),
        mostCommonStatusCode |-> MostCommon(statusCodeCounts),
        allStatusCodes |-> <<"num", ReduceMax(Head(errorStatusCodesArray),
                                             Tail(errorStatusCodesArray), statusCodeCounts)>>]

\* variant: allStatusCodes repeats the reduction over the keys
GqlEntry_SameReduction(requests) ==
    LET failing == SelectSeq(requests, GqlHasError)
        errorStatusCodesArray == [k \in 1..Len(failing) |-> failing[k].responseStatusCode[2]]
        statusCodeCounts == SeqToCounts(errorStatusCodesArray)
    IN [count |-> Len(errorStatusCodesArray),
        mostCommonStatusCode |-> MostCommon(statusCodeCounts),
        allStatusCodes |-> <<"num", MostCommon(statusCodeCounts)[2]>>]

\* the value assigned to updatedJson.errors.gql[operationName]
GqlEntry(requests) ==
    LET failing == SelectSeq(requests, GqlHasError)
        errorStatusCodesArray == [k \in 1..Len(failing) |-> failing[k].responseStatusCode[2]]
        statusCodeCounts == SeqToCounts(errorStatusCodesArray)
    IN [count |-> Len(errorStatusCodesArray),
        mostCommonStatusCode |-> MostCommon(statusCodeCounts),
        allStatusCodes |-> <<"num", ReduceMax(Head(errorStatusCodesArray),
                                             Tail(errorStatusCodesArray), statusCodeCounts)>>]

\* for (const request of operation.requests) { ... }
GqlOperation(errorsGql, operation) ==
    IF \E k \in 1..Len(operation.requests) :
          Truthy(operation.requests[k].responseBody) /\ GqlHasError(operation.requests[k])
    THEN SetEntry(errorsGql, operation.key, GqlEntry(operation.requests))
    ELSE errorsGql

RECURSIVE GqlOperations(_, _)
GqlOperations(errorsGql, operations) ==
    IF operations = <<>> THEN errorsGql
    ELSE GqlOperations(GqlOperation(errorsGql, Head(operations)), Tail(operations))

\* variant: the rest path tests the serialized body as the gql path does
RestRequest_BodyCounts(errorsRest, request) ==
    LET code == request.responseStatusCode[2]
        k == KeyIndex(errorsRest, request.requestUrl)
    IN IF ~GqlHasError(request) THEN errorsRest
       ELSE IF k = 0
       THEN Append(errorsRest, [key |-> request.requestUrl,
                                count |-> 1,
                                mostCommonStatusCode |-> <<"num", code>>,
                                allStatusCodes |-> <<"list", <<code>>>>])
       ELSE [errorsRest EXCEPT
                ![k].count = @ + 1,
                ![k].mostCommonStatusCode = MostCommon(SeqToCounts(errorsRest[k].allStatusCodes[2])),
                ![k].allStatusCodes = <<"list", <<>>>>]

\* variant: allStatusCodes accumulates the code of every failing request
RestRequest_Accumulates(errorsRest, request) ==
    LET code == request.responseStatusCode[2]
        k == KeyIndex(errorsRest, request.requestUrl)
    IN IF code = 200 THEN errorsRest
       ELSE IF k = 0
       THEN Append(errorsRest, [key |-> request.requestUrl,
                                count |-> 1,
                                mostCommonStatusCode |-> <<"num", code>>,
                                allStatusCodes |-> <<"list", <<code>>>>])
       ELSE [errorsRest EXCEPT
                ![k].count = @ + 1,
                ![k].mostCommonStatusCode = MostCommon(SeqToCounts(errorsRest[k].allStatusCodes[2])),
                ![k].allStatusCodes = <<"list", Append(errorsRest[k].allStatusCodes[2], code)>>]

\* one turn of `for (const request of role.rest.requests)`
RestRequest(errorsRest, request) ==
    LET code == request.responseStatusCode[2]
        k == KeyIndex(errorsRest, request.requestUrl)
    IN IF code = 200 THEN errorsRest
       ELSE IF k = 0
       THEN Append(errorsRest, [key |-> request.requestUrl,
                                count |-> 1,
                                mostCommonStatusCode |-> <<"num", code>>,
                                allStatusCodes |-> <<"list", <<code>>>>])
       ELSE [errorsRest EXCEPT
                ![k].count = @ + 1,
                ![k].mostCommonStatusCode = MostCommon(SeqToCounts(errorsRest[k].allStatusCodes[2])),
                \* [...new Set(updatedJson.errors[`rest-${request.requestUrl}`])]
                ![k].allStatusCodes = <<"list", <<>>>>]

RECURSIVE RestRequests(_, _)
RestRequests(errorsRest, requests) ==
    IF requests = <<>> THEN errorsRest
    ELSE RestRequests(RestRequest(errorsRest, Head(requests)), Tail(requests))

RECURSIVE ClassifyRoles(_, _)
\* for (const roleName in updatedJson.roles) { ... }
ClassifyRoles(errors, roles) ==
    IF roles = <<>> THEN errors
    ELSE ClassifyRoles([gql |-> GqlOperations(errors.gql, Head(roles).gql.operations),
                        rest |-> RestRequests(errors.rest, Head(roles).rest.requests)],
                       Tail(roles))

\* variant: the result keeps only the failing requests of the rest buckets
extendJsonWithErrors_KeepsFailures(roles) ==
    LET updatedJson == DeepCopy(roles)
    IN [roles |-> [k \in 1..Len(updatedJson) |->
                      [updatedJson[k] EXCEPT !.rest.requests =
                          SelectSeq(@, LAMBDA q : q.responseStatusCode[2] # 200)]],
        errors |-> ClassifyRoles([gql |-> <<>>, rest |-> <<>>], updatedJson)]

extendJsonWithErrors(roles) ==
    LET updatedJson == DeepCopy(roles)
    IN [roles |-> updatedJson,
        errors |-> ClassifyRoles([gql |-> <<>>, rest |-> <<>>], updatedJson)]

\* ------------------------------------------------------------------------
\* mergeNetworkTraces as a whole, the constructor, and the trace store
\* ------------------------------------------------------------------------
\* the orders in which fs.readdirSync may list a set of names
Listings(names) ==
    {p \in [1..Cardinality(names) -> names] :
        \A i, j \in 1..Cardinality(names) : p[i] = p[j] => i = j}

EmptyMerge == [roles |-> <<>>, threw |-> FALSE, log |-> {}]

\* the listing with what readFileSync returns for each name
ReadAll(fs, order) == [k \in 1..Len(order) |-> [file |-> order[k], fileContents |-> fs[order[k]]]]

MergeNetworkTraces ==
    /\ merges < MaxMerges
    /\ merges' = merges + 1
    /\ IF ~dirExists
       THEN \* readdirSync threw and was logged; files.forEach of undefined throws
            /\ log' = log \cup {MergeLog("Metrics folder was not found")}
            /\ mergeOutcome' = "TypeError"
            /\ readdir' = <<>>
            /\ UNCHANGED <<dirExists, files, reports>>
       ELSE \E order \in Listings(DOMAIN files) :
            LET m == MergeFiles(EmptyMerge, files, order)
            IN /\ readdir' = ReadAll(files, order)
               /\ log' = log \cup m.log
               /\ IF m.threw
                  THEN /\ mergeOutcome' = "TypeError"
                       /\ UNCHANGED <<dirExists, files, reports>>
                  ELSE \* the store is emptied and removed, then the report is written
                       /\ files' = <<>>
                       /\ dirExists' = FALSE
                       /\ \E written \in BOOLEAN :
                            IF written
                            THEN /\ reports' = Append(reports, extendJsonWithErrors(m.roles))
                                 /\ mergeOutcome' = "returned"
                            ELSE /\ reports' = reports
                                 /\ mergeOutcome' = "writeFailed"
    /\ UNCHANGED <<obsVars, helperVars>>

\* new Metrics(): fs.mkdirSync(networkMetricsSavePath) unless it exists
NewMetrics ==
    /\ ~dirExists
    /\ dirExists' = TRUE
    /\ UNCHANGED <<files, log, obsVars, mergeVars, helperVars>>

\* what the store may hold when the merge starts
OI5 == [avgResponseTime |-> Quot(2000, 1), totalRequests |-> 5, totalTime |-> 10000, contextTime |-> 0]
OI8 == [avgResponseTime |-> Quot(2001, 1), totalRequests |-> 8, totalTime |-> 16008, contextTime |-> 0]

StoredRecord(url, status, requestBody, responseBody) ==
    [statusCode |-> status,
     requestUrl |-> url,
     requestHeaders |-> Headers,
     requestBody |-> requestBody,
     responseUrl |-> url,
     responseHeaders |-> Headers,
     responseBody |-> responseBody,
     responseTime |-> threshold_ms + 1,
     responseStatusCode |-> Missing]

StoreNames == {FileNameOf(RoleUser, 0), FileNameOf(RoleUser, 1), FileNameOf(RoleAB, 0)}
StoreContents ==
    {Unparseable, Null,
     Val([overallInformation |-> Val(OI5), requests |-> Val(<<>>)]),
     Val([overallInformation |-> Val(OI8), requests |-> Missing])}
StoreRecords ==
    {StoredRecord(UrlRest, 404, Null, Val(BodyOk)),
     StoredRecord(UrlRest, 500, Null, Val(BodyOk)),
     StoredRecord(UrlGql, 500, Val([operationName |-> Val("opA")]), Val(BodyOk))}

RECURSIVE CountRecords(_, _)
CountRecords(fs, names) ==
    IF names = {} THEN 0
    ELSE LET n == CHOOSE x \in names : TRUE
             c == fs[n]
         IN (IF HasVal(c) /\ HasVal(c[2].requests) THEN Len(c[2].requests[2]) ELSE 0)
            + CountRecords(fs, names \ {n})

\* a file appears in the store
PutFile(name, content) ==
    /\ merges = 0 /\ dirExists
    /\ name \notin DOMAIN files
    /\ Cardinality(DOMAIN files) < MaxStoreFiles
    /\ files' = WriteFile(files, name, content)
    /\ UNCHANGED <<dirExists, log, obsVars, mergeVars, helperVars>>

\* a trace file of the store holds one more record
PutRecord(name, record) ==
    /\ merges = 0 /\ dirExists
    /\ name \in DOMAIN files
    /\ HasVal(files[name]) /\ HasVal(files[name][2].requests)
    /\ CountRecords(files, DOMAIN files) < MaxRecords
    /\ files' = [files EXCEPT ![name] =
            Val([@[2] EXCEPT !.requests = Val(Append(@[2], record))])]
    /\ UNCHANGED <<dirExists, log, obsVars, mergeVars, helperVars>>

NextMerge ==
    \/ \E name \in StoreNames, content \in StoreContents : PutFile(name, content)
    \/ \E name \in StoreNames, record \in StoreRecords : PutRecord(name, record)
    \/ MergeNetworkTraces
    \/ NewMetrics

SpecMerge == InitObserver /\ [][NextMerge]_vars

\* ------------------------------------------------------------------------
\* The pipeline end to end: sessions write their traces, then the merge runs
\* ------------------------------------------------------------------------
\* the post process merges once every monitored page is closed
MergeAfterSessions ==
    /\ \A s \in Sessions : monitored[s] => closed[s]
    /\ MergeNetworkTraces

NextPipeline ==
    \/ \E s \in Sessions, role \in Roles, t \in 0..MaxTime : MonitorNetworkTraffic(s, role, t)
    \/ \E s \in Sessions : RequestFinished(s, SlowExchange)
    \/ \E s \in Sessions, i \in 1..MaxExchanges : ResponseResolved(s, i)
    \/ \E s \in Sessions, i \in 1..MaxExchanges : BodyResolved(s, i, BodyOk)
    \/ \E s \in Sessions, i \in 1..MaxExchanges : HeadersResolved(s, i)
    \/ \E s \in Sessions : PageClose(s)
    \/ MergeAfterSessions

SpecPipeline == InitObserver /\ [][NextPipeline]_vars

\* ------------------------------------------------------------------------
\* Stores of trace files of two roles, one of them with two files, for the
\* routing of the merge
\* ------------------------------------------------------------------------
TraceNames == {FileNameOf(RoleUser, 0), FileNameOf(RoleUser, 1), FileNameOf(RoleAB, 0)}
EmptyTrace == Val([overallInformation |-> Val(OI5), requests |-> Val(<<>>)])
NoOperationName == Val([operationName |-> Missing])
OpA == Val([operationName |-> Val("opA")])
OpB == Val([operationName |-> Val("opB")])

\* records with and without bodies, with and without an operation name
RoutingRecords ==
    {StoredRecord(UrlRest, 500, Missing, Null),
     StoredRecord(UrlGql, 200, OpA, Missing),
     StoredRecord(UrlGql, 500, Null, Val(BodyOk)),
     StoredRecord(UrlGql, 500, NoOperationName, Val(BodyOk)),
     StoredRecord(UrlGql, 200, OpA, Val(BodyOk)),
     StoredRecord(UrlGql, 404, OpB, Val(BodyOk)),
     StoredRecord(UrlRest, 404, Null, Val(BodyOk))}

NextRouting ==
    \/ \E name \in TraceNames : PutFile(name, EmptyTrace)
    \/ \E name \in TraceNames, record \in RoutingRecords : PutRecord(name, record)
    \/ MergeNetworkTraces

SpecRouting == InitObserver /\ [][NextRouting]_vars

\* ------------------------------------------------------------------------
\* Stores of graphql records, for the gql path of the classifier
\* ------------------------------------------------------------------------
BodyErrors == ErrorWord \o <<"s">>
BodyEmpty == <<>>
GqlRecords ==
    {StoredRecord(UrlGql, 500, OpA, Val(BodyOk)),
     StoredRecord(UrlGql, 404, OpA, Val(BodyOk)),
     StoredRecord(UrlGql, 200, OpA, Val(BodyErrors)),
     StoredRecord(UrlGql, 200, OpA, Val(BodyOk)),
     StoredRecord(UrlGql, 500, OpA, Val(BodyEmpty)),
     StoredRecord(UrlGql, 404, OpB, Val(BodyOk))}

NextGql ==
    \/ \E name \in TraceNames : PutFile(name, EmptyTrace)
    \/ \E name \in TraceNames, record \in GqlRecords : PutRecord(name, record)
    \/ MergeNetworkTraces

SpecGql == InitObserver /\ [][NextGql]_vars

\* ------------------------------------------------------------------------
\* Stores of rest records, for the rest path of the classifier
\* ------------------------------------------------------------------------
UrlRestB == <<"/", "b">>
RestRecords ==
    {StoredRecord(UrlRest, 200, Null, Val(BodyErrors)),
     StoredRecord(UrlRest, 500, Null, Val(BodyOk)),
     StoredRecord(UrlRest, 404, Null, Val(BodyOk)),
     StoredRecord(UrlRestB, 404, Null, Val(BodyOk))}

NextRest ==
    \/ \E name \in TraceNames : PutFile(name, EmptyTrace)
    \/ \E name \in TraceNames, record \in RestRecords : PutRecord(name, record)
    \/ MergeNetworkTraces

SpecRest == InitObserver /\ [][NextRest]_vars

\* ------------------------------------------------------------------------
\* Stores of records as other writers may have left them, for the record copy
\* ------------------------------------------------------------------------
CopyRecords ==
    {[StoredRecord(UrlRest, 500, Missing, Val(BodyOk)) EXCEPT !.responseStatusCode = Val(200)],
     [StoredRecord(UrlGql, 404, OpA, Val(BodyOk)) EXCEPT !.responseStatusCode = Null],
     StoredRecord(UrlRest, 200, Null, Val(BodyOk)),
     StoredRecord(UrlGql, 200, OpA, Val(BodyErrors))}

NextCopy ==
    \/ \E name \in TraceNames : PutFile(name, EmptyTrace)
    \/ \E name \in TraceNames, record \in CopyRecords : PutRecord(name, record)
    \/ MergeNetworkTraces

SpecCopy == InitObserver /\ [][NextCopy]_vars

\* ------------------------------------------------------------------------
\* Debug ports: usedPortsSet and getFreeDebugPort
\* ------------------------------------------------------------------------
pipelineVars == <<obsVars, log, dirExists, files, mergeVars>>
portVars == <<usedPorts, portPc, returnedPorts>>
jsonVars == <<jsonFile, lockHeld, jsonPc, jsonResults>>

minPort == 49152
maxPort == 65535
PortRange == minPort..maxPort
\* the values Math.floor(Math.random() * (maxPort - minPort + 1)) takes in the model
DrawnOffsets == {0, 1, 8192, maxPort - minPort - 1, maxPort - minPort}

\* a call enters the do-while loop
GetFreeDebugPortCall ==
    /\ portPc = "idle"
    /\ Len(returnedPorts) < MaxPortCalls
    /\ portPc' = "loop"
    /\ UNCHANGED <<usedPorts, returnedPorts, jsonVars, pipelineVars>>

\* variant: the port is returned without being reserved
DrawPort_NoReserve(offset) ==
    /\ portPc = "loop"
    /\ LET randomPort == offset + minPort
       IN IF randomPort \in usedPorts
          THEN UNCHANGED <<usedPorts, portPc, returnedPorts>>
          ELSE /\ usedPorts' = usedPorts
               /\ returnedPorts' = Append(returnedPorts, randomPort)
               /\ portPc' = "idle"
    /\ UNCHANGED <<jsonVars, pipelineVars>>

\* one turn of the loop: a reserved port is drawn again, a free one is reserved
\* and returned
DrawPort(offset) ==
    /\ portPc = "loop"
    /\ LET randomPort == offset + minPort
       IN IF randomPort \in usedPorts
          THEN UNCHANGED <<usedPorts, portPc, returnedPorts>>
          ELSE /\ usedPorts' = usedPorts \cup {randomPort}
               /\ returnedPorts' = Append(returnedPorts, randomPort)
               /\ portPc' = "idle"
    /\ UNCHANGED <<jsonVars, pipelineVars>>

\* the process has handed out no port yet, or all but a few of the drawn ones
PortStarts ==
    {{}} \cup {PortRange \ {o + minPort : o \in F} :
                  F \in SUBSET {maxPort - minPort - 1, maxPort - minPort}}

InitPorts ==
    /\ InitPipeline
    /\ usedPorts \in PortStarts
    /\ portPc = "idle"
    /\ returnedPorts = <<>>
    /\ jsonFile = "missing"
    /\ lockHeld = FALSE
    /\ jsonPc = "idle"
    /\ jsonResults = <<>>

NextPorts ==
    \/ GetFreeDebugPortCall
    \/ \E offset \in DrawnOffsets : DrawPort(offset)

SpecPorts == InitPorts /\ [][NextPorts]_vars

\* ------------------------------------------------------------------------
\* Locked JSON files: readJsonSafely and writeJsonSafely on one file path
\* ------------------------------------------------------------------------
\* jsonFile is what the path holds ("missing", "valid" or "corrupt" JSON text),
\* lockHeld whether <path>.lock exists; a lock that was not released is kept
\* fresh for as long as the process runs, so it never becomes stale.
JsonFileStates == {"missing", "valid", "corrupt"}

JsonReturn(result) ==
    /\ jsonResults' = Append(jsonResults, result)
    /\ jsonPc' = "idle"

\* lockfile.lock of readJsonSafely: it rejects when the path does not exist or
\* the lock is still held after the retries, and the catch block returns null
ReadJsonLock ==
    /\ jsonPc = "idle"
    /\ Len(jsonResults) < MaxJsonCalls
    /\ IF jsonFile = "missing" \/ lockHeld
       THEN JsonReturn("null") /\ UNCHANGED lockHeld
       ELSE /\ lockHeld' = TRUE
            /\ jsonPc' = "readLocked"
            /\ UNCHANGED jsonResults
    /\ UNCHANGED <<jsonFile, portVars, pipelineVars>>

\* variant: every exit of the read releases the lock
ReadJsonBody_Finally ==
    /\ jsonPc = "readLocked"
    /\ lockHeld' = FALSE
    /\ CASE jsonFile = "missing" -> JsonReturn("empty")
         [] jsonFile = "corrupt" -> JsonReturn("null")
         [] OTHER -> JsonReturn("data")
    /\ UNCHANGED <<jsonFile, portVars, pipelineVars>>

\* readJsonSafely after the lock: {} for a missing file and null for a parse
\* error, both without unlock; the data after unlock
ReadJsonBody ==
    /\ jsonPc = "readLocked"
    /\ CASE jsonFile = "missing" -> JsonReturn("empty") /\ UNCHANGED lockHeld
         [] jsonFile = "corrupt" -> JsonReturn("null") /\ UNCHANGED lockHeld
         [] OTHER -> JsonReturn("data") /\ lockHeld' = FALSE
    /\ UNCHANGED <<jsonFile, portVars, pipelineVars>>

\* lockfile.lock of writeJsonSafely, rejecting as in readJsonSafely
WriteJsonLock ==
    /\ jsonPc = "idle"
    /\ Len(jsonResults) < MaxJsonCalls
    /\ IF jsonFile = "missing" \/ lockHeld
       THEN JsonReturn("failed") /\ UNCHANGED lockHeld
       ELSE /\ lockHeld' = TRUE
            /\ jsonPc' = "writeLocked"
            /\ UNCHANGED jsonResults
    /\ UNCHANGED <<jsonFile, portVars, pipelineVars>>

\* writeJsonSafely after the lock: a parse error of the current content or a
\* failing writeFileSync goes to the catch block without unlock
WriteJsonBody(writeOk) ==
    /\ jsonPc = "writeLocked"
    /\ IF jsonFile = "corrupt" \/ ~writeOk
       THEN JsonReturn("failed") /\ UNCHANGED <<jsonFile, lockHeld>>
       ELSE /\ jsonFile' = "valid"
            /\ lockHeld' = FALSE
            /\ JsonReturn("written")
    /\ UNCHANGED <<portVars, pipelineVars>>

\* another writer of the path: the file is created, removed or left half-written
JsonFileSet(content) ==
    /\ content # jsonFile
    /\ jsonFile' = content
    /\ UNCHANGED <<lockHeld, jsonPc, jsonResults, portVars, pipelineVars>>

NextJson ==
    \/ ReadJsonLock
    \/ ReadJsonBody
    \/ WriteJsonLock
    \/ \E writeOk \in BOOLEAN : WriteJsonBody(writeOk)
    \/ \E content \in JsonFileStates : JsonFileSet(content)

SpecJson == InitObserver /\ [][NextJson]_vars

\* ------------------------------------------------------------------------
\* Properties
\* ------------------------------------------------------------------------
Last(seq) == seq[Len(seq)]
Warned(s, i) == <<"warn", "Could not get response Buffer", s, i>> \in log
\* the exchange passes the URL filter and is slow or failed
Qualifies(e) ==
    /\ \E query \in URLQuery : Includes(e.url, query)
    /\ (e.status # 200 \/ e.time > threshold_ms)
TraceRequests(s) == trace[s][2].requests[2]
TraceInfo(s) == trace[s][2].overallInformation[2]
RecordedInTrace(s, e) ==
    \E k \in 1..Len(TraceRequests(s)) :
        /\ TraceRequests(s)[k].requestUrl = e.url
        /\ TraceRequests(s)[k].statusCode = e.status
        /\ TraceRequests(s)[k].responseTime = e.time
MatchedExchanges(s) == {i \in 1..Len(exch[s]) : MatchesFilter(exch[s][i].url)}
RECURSIVE SumTimes(_, _)
SumTimes(s, I) ==
    IF I = {} THEN 0
    ELSE LET i == CHOOSE x \in I : TRUE IN exch[s][i].time + SumTimes(s, I \ {i})

\* C1: in a written trace, a finished exchange of the session has a record if
\* and only if its URL contains a URLQuery substring and its status is not 200
\* or its responseTime is above threshold_ms.
C1_RecordedIffQualifies ==
    \A s \in Sessions :
        HasVal(trace[s]) =>
            \A i \in 1..Len(exch[s]) :
                RecordedInTrace(s, exch[s][i]) <=> Qualifies(exch[s][i])

\* the files of the listing that parsed, for one role
IsTraceOf(k, role) ==
    /\ HasVal(readdir[k].fileContents)
    /\ SplitRole(readdir[k].file) = role
InfoOf(k) == Jsonify(Read(readdir[k].fileContents[2].overallInformation))
ReportRole(report, role) == report.roles[KeyIndex(report.roles, role)]
TwoFilesOfOneRole(i, j) ==
    /\ i < j
    /\ IsTraceOf(i, SplitRole(readdir[i].file))
    /\ IsTraceOf(j, SplitRole(readdir[i].file))
    /\ \A k \in 1..Len(readdir) :
          IsTraceOf(k, SplitRole(readdir[i].file)) => k \in {i, j}

\* C2 (as claimed): of two trace files of one role, the merged report carries
\* the overallInformation of the file processed second.
C2_SecondFileOverwrites ==
    mergeOutcome = "returned" =>
        \A i, j \in 1..Len(readdir) :
            TwoFilesOfOneRole(i, j) =>
                ReportRole(Last(reports), SplitRole(readdir[i].file)).overallInformation
                    = InfoOf(j)

\* C2 (amended): of two trace files of one role, the merged report carries the
\* overallInformation of the file processed first; the second file's is not
\* taken and nothing is summed.
C2_FirstFileSeeds ==
    mergeOutcome = "returned" =>
        \A i, j \in 1..Len(readdir) :
            TwoFilesOfOneRole(i, j) =>
                ReportRole(Last(reports), SplitRole(readdir[i].file)).overallInformation
                    = InfoOf(i)

C2_Witness ==
    /\ mergeOutcome = "returned"
    /\ \E i, j \in 1..Len(readdir) :
          /\ TwoFilesOfOneRole(i, j)
          /\ InfoOf(i) = Val(OI5) /\ InfoOf(j) = Val(OI8)
          /\ ReportRole(Last(reports), SplitRole(readdir[i].file)).overallInformation = Val(OI5)

\* failing rest requests of a report for one URL, as (role, position) pairs
RestFailures(report, url) ==
    {p \in (1..Len(report.roles)) \X (1..MaxRecords + 1) :
        /\ p[2] <= Len(report.roles[p[1]].rest.requests)
        /\ report.roles[p[1]].rest.requests[p[2]].requestUrl = url
        /\ report.roles[p[1]].rest.requests[p[2]].responseStatusCode[2] # 200}
RestCode(report, p) == report.roles[p[1]].rest.requests[p[2]].responseStatusCode[2]
RestFrequency(report, url, code) ==
    Cardinality({p \in RestFailures(report, url) : RestCode(report, p) = code})

\* C3: for every URL with failing rest requests, errors.rest[url] exists and its
\* mostCommonStatusCode is a status code of maximal frequency among them.
C3_RestMostCommonIsMaximal ==
    mergeOutcome = "returned" =>
        LET report == Last(reports)
        IN \A r \in 1..Len(report.roles) :
             \A j \in 1..Len(report.roles[r].rest.requests) :
                LET url == report.roles[r].rest.requests[j].requestUrl
                    k == KeyIndex(report.errors.rest, url)
                IN RestFailures(report, url) # {} =>
                     /\ k # 0
                     /\ report.errors.rest[k].mostCommonStatusCode # Null
                     /\ \A p \in RestFailures(report, url) :
                           RestFrequency(report, url, report.errors.rest[k].mostCommonStatusCode[2])
                               >= RestFrequency(report, url, RestCode(report, p))

EmptyReport == [roles |-> <<>>, errors |-> [gql |-> <<>>, rest |-> <<>>]]

\* C5: a merge that finds no store directory returns, having written a report
\* with no roles.
C5_MissingDirMergesNothing ==
    [][(merges' = merges + 1 /\ ~dirExists) =>
            /\ mergeOutcome' = "returned"
            /\ reports' = Append(reports, EmptyReport)]_vars

\* C6: whatever the files of the store hold, the merge does not abort, and a
\* merge that returns has written exactly one report.
C6_MergeNeverAborts ==
    [][(merges' = merges + 1 /\ dirExists) =>
            /\ mergeOutcome' # "TypeError"
            /\ mergeOutcome' = "returned" => Len(reports') = Len(reports) + 1]_vars

\* a store of unparseable files and trace files
MixedStore(fs) ==
    /\ \E n \in DOMAIN fs : fs[n] = Unparseable
    /\ \E n \in DOMAIN fs : HasVal(fs[n])
    /\ \A n \in DOMAIN fs : fs[n] # Null
ListedNames == [k \in 1..Len(readdir) |-> readdir[k].file]

\* C7: a merge over unparseable and parseable files does not abort, deletes
\* every file and the directory, and its report is the one the parseable files
\* alone give.
C7_UnparseableSkippedStoreRemoved ==
    [][(merges' = merges + 1 /\ dirExists /\ MixedStore(files)) =>
            /\ mergeOutcome' \in {"returned", "writeFailed"}
            /\ files' = <<>>
            /\ ~dirExists'
            /\ mergeOutcome' = "returned" =>
                  /\ Len(reports') = Len(reports) + 1
                  /\ Last(reports') = extendJsonWithErrors(
                        MergeFiles(EmptyMerge, files,
                                   SelectSeq(ListedNames', LAMBDA n : files[n] # Unparseable)).roles)
                  /\ \A r \in 1..Len(Last(reports').roles) :
                        \E n \in DOMAIN files :
                            HasVal(files[n]) /\ SplitRole(n) = Last(reports').roles[r].key]_vars

C7_Witness ==
    /\ mergeOutcome = "returned"
    /\ files = <<>> /\ ~dirExists
    /\ \E k \in 1..Len(readdir) : readdir[k].fileContents = Unparseable
    /\ \E k \in 1..Len(readdir) : HasVal(readdir[k].fileContents)
    /\ Len(Last(reports).roles) = 1
    /\ Len(Last(reports).roles[1].rest.requests) > 0

\* C8: a written trace counts every filter-matched exchange of the session in
\* totalRequests and totalTime, and avgResponseTime is their quotient.
C8_TotalsCoverAllMatched ==
    \A s \in Sessions :
        HasVal(trace[s]) =>
            /\ TraceInfo(s).totalRequests = Cardinality(MatchedExchanges(s))
            /\ TraceInfo(s).totalTime = SumTimes(s, MatchedExchanges(s))
            /\ TraceInfo(s).avgResponseTime =
                  Quot(SumTimes(s, MatchedExchanges(s)), Cardinality(MatchedExchanges(s)))

\* C9: no step of the handler of an exchange whose URL contains none of the
\* URLQuery substrings changes totalRequests, totalTime or the request list.
C9_UnmatchedLeavesSessionUnchanged ==
    [][\A s \in Sessions :
          /\ \A i \in 1..Len(exch[s]) :
                (~MatchesFilter(exch[s][i].url) /\ exch'[s][i].pc # exch[s][i].pc) =>
                    collectedData'[s] = collectedData[s]
          /\ (Len(exch'[s]) > Len(exch[s]) /\ ~MatchesFilter(Last(exch'[s]).url)) =>
                collectedData'[s] = collectedData[s]]_vars

C9_Witness ==
    \E s \in Sessions :
        \E i \in 1..Len(exch[s]) :
            /\ ~MatchesFilter(exch[s][i].url)
            /\ SlowOrFailed(exch[s][i].status, exch[s][i].time)
            /\ exch[s][i].pc = "done"
            /\ collectedData[s].overallInformation.totalRequests = 0
            /\ collectedData[s].requests = <<>>

\* C10: the close step writes the trace file exactly when the request list is
\* not empty, whatever totalRequests is, and no other step of the session
\* writes it.
C10_WritesOnceIffRecords ==
    [][\A s \in Sessions :
          /\ (~closed[s] /\ closed'[s]) =>
                /\ HasVal(trace'[s]) <=> Len(collectedData[s].requests) > 0
                /\ HasVal(trace'[s]) =>
                      /\ fileName[s] \in DOMAIN files'
                      /\ files'[fileName[s]] = trace'[s]
                /\ ~HasVal(trace'[s]) => files' = files
          /\ closed[s] => (closed'[s] /\ trace'[s] = trace[s])
          /\ (~closed[s] /\ ~closed'[s]) => (trace'[s] = Missing /\ trace[s] = Missing)]_vars

C10_Witness ==
    \E s \in Sessions :
        /\ closed[s]
        /\ trace[s] = Missing
        /\ collectedData[s].overallInformation.totalRequests > 0
        /\ fileName[s] \notin DOMAIN files

\* every record of a report, role by role: the rest bucket, then the operations
RECURSIVE ConcatOperations(_)
ConcatOperations(operations) ==
    IF operations = <<>> THEN <<>>
    ELSE Head(operations).requests \o ConcatOperations(Tail(operations))
RECURSIVE ReportRecords(_)
ReportRecords(roles) ==
    IF roles = <<>> THEN <<>>
    ELSE Head(roles).rest.requests \o ConcatOperations(Head(roles).gql.operations)
             \o ReportRecords(Tail(roles))
\* the records of the files of the last listing, in file then list order
ListedRequests(k) ==
    IF HasVal(readdir[k].fileContents) /\ HasVal(readdir[k].fileContents[2].requests)
    THEN readdir[k].fileContents[2].requests[2]
    ELSE <<>>
RECURSIVE ListedFrom(_)
ListedFrom(k) == IF k > Len(readdir) THEN <<>> ELSE ListedRequests(k) \o ListedFrom(k + 1)
ListedRecords == ListedFrom(1)
IsGraphqlUrl(record) == Includes(record.requestUrl, GraphqlMarker)

\* C11: a merged report holds no record without a responseBody, in no gql
\* operation bucket and in no rest bucket; it holds at most as many records as
\* the listed files hold records with a responseBody.
C11_AbsentBodyNeverMerged ==
    mergeOutcome = "returned" =>
        LET merged == ReportRecords(Last(reports).roles)
        IN /\ \A k \in 1..Len(merged) : HasVal(merged[k].responseBody)
           /\ Len(merged) <= Len(SelectSeq(ListedRecords, LAMBDA q : HasVal(q.responseBody)))

C11_Witness ==
    /\ mergeOutcome = "returned"
    /\ \E k \in 1..Len(ListedRecords) :
          ListedRecords[k].responseBody = Null /\ ~IsGraphqlUrl(ListedRecords[k])
    /\ \E k \in 1..Len(ListedRecords) :
          ListedRecords[k].responseBody = Missing /\ IsGraphqlUrl(ListedRecords[k])
    /\ Len(ReportRecords(Last(reports).roles)) = 1

\* C12: a merged report holds no record with a graphql URL and no requestBody,
\* in no bucket; the records it holds are as many as the listed records that
\* have a responseBody and are not a graphql record without requestBody.
C12_GraphqlWithoutBodyDropped ==
    mergeOutcome = "returned" =>
        LET merged == ReportRecords(Last(reports).roles)
        IN /\ \A k \in 1..Len(merged) :
                 IsGraphqlUrl(merged[k]) => HasVal(merged[k].requestBody)
           /\ Len(merged) = Len(SelectSeq(ListedRecords,
                    LAMBDA q : /\ HasVal(q.responseBody)
                               /\ IsGraphqlUrl(q) => HasVal(q.requestBody)))

C12_Witness ==
    /\ mergeOutcome = "returned"
    /\ \E k \in 1..Len(ListedRecords) :
          /\ IsGraphqlUrl(ListedRecords[k])
          /\ HasVal(ListedRecords[k].responseBody)
          /\ IsNullish(ListedRecords[k].requestBody)
    /\ Len(ListedRecords) = 2
    /\ Len(ReportRecords(Last(reports).roles)) = 1

\* a request of a bucket is erroring: its serialized responseBody contains
\* "error" or its normalized status code is not 200
Erroring(q) ==
    \/ Includes(<<"\"">> \o q.responseBody[2] \o <<"\"">>, <<"e", "r", "r", "o", "r">>)
    \/ q.responseStatusCode[2] # 200
ErroringCodes(requests) ==
    LET failing == SelectSeq(requests, Erroring)
    IN [k \in 1..Len(failing) |-> failing[k].responseStatusCode[2]]
\* the roles under which a report has a bucket of the operation
RolesOfOperation(report, name) ==
    {r \in 1..Len(report.roles) : KeyIndex(report.roles[r].gql.operations, name) # 0}
OperationNames(report) ==
    UNION {{report.roles[r].gql.operations[k].key :
                k \in 1..Len(report.roles[r].gql.operations)} :
           r \in 1..Len(report.roles)}
OperationBucket(report, r, name) ==
    report.roles[r].gql.operations[KeyIndex(report.roles[r].gql.operations, name)]

\* C13: in a report whose operation names each occur under a single role,
\* errors.gql[operation] exists exactly when the operation has an erroring
\* request, and its count is the number of erroring requests, those with an
\* empty responseBody included.
C13_GqlEntryIffErroring ==
    (/\ mergeOutcome = "returned"
     /\ \A name \in OperationNames(Last(reports)) :
            Cardinality(RolesOfOperation(Last(reports), name)) = 1) =>
        LET report == Last(reports)
        IN /\ \A name \in OperationNames(report) :
                 \A r \in RolesOfOperation(report, name) :
                    LET codes == ErroringCodes(OperationBucket(report, r, name).requests)
                        e == KeyIndex(report.errors.gql, name)
                    IN /\ e # 0 <=> Len(codes) > 0
                       /\ e # 0 => report.errors.gql[e].count = Len(codes)
           /\ \A e \in 1..Len(report.errors.gql) :
                 report.errors.gql[e].key \in OperationNames(report)

RestUrls(report) ==
    UNION {{report.roles[r].rest.requests[j].requestUrl :
                j \in 1..Len(report.roles[r].rest.requests)} :
           r \in 1..Len(report.roles)}

\* C14: errors.rest[url] exists exactly when a rest request with that URL, in
\* any role, has a status code other than 200; its count is the number of such
\* requests over all roles; the responseBody plays no part.
C14_RestEntryIffFailing ==
    mergeOutcome = "returned" =>
        LET report == Last(reports)
        IN /\ \A url \in RestUrls(report) :
                 LET e == KeyIndex(report.errors.rest, url)
                 IN /\ e # 0 <=> RestFailures(report, url) # {}
                    /\ e # 0 => report.errors.rest[e].count
                                    = Cardinality(RestFailures(report, url))
           /\ \A e \in 1..Len(report.errors.rest) :
                 report.errors.rest[e].key \in RestUrls(report)

C14_Witness ==
    /\ mergeOutcome = "returned"
    /\ Len(Last(reports).roles) = 2
    /\ \A r \in 1..2 :
          \E j \in 1..Len(Last(reports).roles[r].rest.requests) :
              /\ Last(reports).roles[r].rest.requests[j].requestUrl = UrlRest
              /\ Last(reports).roles[r].rest.requests[j].responseStatusCode[2] # 200
    /\ \E r \in 1..2 :
          \E j \in 1..Len(Last(reports).roles[r].rest.requests) :
              /\ Last(reports).roles[r].rest.requests[j].requestUrl = UrlRest
              /\ Last(reports).roles[r].rest.requests[j].responseStatusCode[2] = 200
              /\ Includes(Last(reports).roles[r].rest.requests[j].responseBody[2], ErrorWord)
    /\ Last(reports).errors.rest[KeyIndex(Last(reports).errors.rest, UrlRest)].count = 2

\* C15: two sessions that each wrote a trace file wrote to different file
\* names, and the store still holds what each of them wrote.
C15_SessionsWriteDistinctFiles ==
    \A s, u \in Sessions :
        (s # u /\ HasVal(trace[s]) /\ HasVal(trace[u])) =>
            /\ fileName[s] # fileName[u]
            /\ files[fileName[s]] = trace[s]

\* the in-memory CollectedData as the structure a parse would have to give back
Unserialized(cd) ==
    Val([overallInformation |-> Val(cd.overallInformation), requests |-> Val(cd.requests)])

\* C16: the trace file a close handler writes parses back to the CollectedData
\* it serialized, every field of every record included.
C16_TraceRoundTrips ==
    [][\A s \in Sessions :
          (~closed[s] /\ closed'[s] /\ HasVal(trace'[s])) =>
              trace'[s] = Unserialized(collectedData'[s])]_vars

\* frequencies of status codes in a list of codes
Frequency(codes, c) == Cardinality({k \in 1..Len(codes) : codes[k] = c})
CodesOf(codes) == {codes[k] : k \in 1..Len(codes)}
MostFrequent(codes) ==
    {c \in CodesOf(codes) : \A d \in CodesOf(codes) : Frequency(codes, c) >= Frequency(codes, d)}
FirstIndex(codes, c) == CHOOSE k \in 1..Len(codes) :
    codes[k] = c /\ \A j \in 1..Len(codes) : codes[j] = c => k <= j
LastIndex(codes, c) == CHOOSE k \in 1..Len(codes) :
    codes[k] = c /\ \A j \in 1..Len(codes) : codes[j] = c => k >= j
\* the erroring status codes, in request order, of the role buckets of an operation
BucketCodes(report, name) ==
    {ErroringCodes(OperationBucket(report, r, name).requests) :
        r \in RolesOfOperation(report, name)} \ {<<>>}

RECURSIVE ListedOfRoleFrom(_, _)
ListedOfRoleFrom(role, k) ==
    IF k > Len(readdir) THEN <<>>
    ELSE (IF SplitRole(readdir[k].file) = role THEN ListedRequests(k) ELSE <<>>)
             \o ListedOfRoleFrom(role, k + 1)
\* a listed record that is not dropped
Survives(q) == HasVal(q.responseBody) /\ (IsGraphqlUrl(q) => HasVal(q.requestBody))
\* a record that carries an operation name on a graphql URL
HasOperationName(q) ==
    /\ IsGraphqlUrl(q)
    /\ HasVal(q.requestBody)
    /\ q.requestBody[2].operationName # Missing
    /\ HasVal(q.requestBody[2].operationName)
\* the record as a bucket holds it
AsMerged(q) == [q EXCEPT !.responseStatusCode = Val(q.statusCode)]
AllAsMerged(qs) == [k \in 1..Len(qs) |-> AsMerged(qs[k])]

\* C18: of the records that are not dropped, those with a graphql URL and an
\* operation name are in the gql bucket of that name under their role, all
\* others are in the rest bucket of their role, each in one bucket, in file then
\* list order.
C18_RoutedByOperationName ==
    mergeOutcome = "returned" =>
        \A r \in 1..Len(Last(reports).roles) :
            LET role == Last(reports).roles[r]
                kept == SelectSeq(ListedOfRoleFrom(role.key, 1), Survives)
            IN /\ role.rest.requests =
                    AllAsMerged(SelectSeq(kept, LAMBDA q : ~HasOperationName(q)))
               /\ \A k \in 1..Len(role.gql.operations) :
                     /\ role.gql.operations[k].requests # <<>>
                     /\ role.gql.operations[k].requests =
                           AllAsMerged(SelectSeq(kept, LAMBDA q :
                               /\ HasOperationName(q)
                               /\ q.requestBody[2].operationName[2] = role.gql.operations[k].key))
               /\ \A j \in 1..Len(kept) :
                     HasOperationName(kept[j]) =>
                        KeyIndex(role.gql.operations, kept[j].requestBody[2].operationName[2]) # 0

\* the failing status codes of one URL over the rest buckets, in role then list order
RECURSIVE RestFailureCodes(_, _)
RestFailureCodes(roles, url) ==
    IF roles = <<>> THEN <<>>
    ELSE LET failing == SelectSeq(Head(roles).rest.requests,
                            LAMBDA q : q.requestUrl = url /\ q.responseStatusCode[2] # 200)
         IN [k \in 1..Len(failing) |-> failing[k].responseStatusCode[2]]
                \o RestFailureCodes(Tail(roles), url)

\* C21: allStatusCodes of an errors.rest entry is the one-element list of the
\* first failing status code while count is 1, and the empty list when count
\* is 2 or more.
C21_RestAllStatusCodesEmptied ==
    mergeOutcome = "returned" =>
        \A e \in 1..Len(Last(reports).errors.rest) :
            LET entry == Last(reports).errors.rest[e]
                codes == RestFailureCodes(Last(reports).roles, entry.key)
            IN /\ entry.count >= 1
               /\ entry.count = 1 => entry.allStatusCodes = <<"list", <<Head(codes)>>>>
               /\ entry.count >= 2 => entry.allStatusCodes = <<"list", <<>>>>

C21_Witness ==
    /\ mergeOutcome = "returned"
    /\ Len(Last(reports).errors.rest) = 2
    /\ \E e \in 1..2 :
          /\ Last(reports).errors.rest[e].count = 2
          /\ Last(reports).errors.rest[e].allStatusCodes = <<"list", <<>>>>
    /\ \E e \in 1..2 :
          /\ Last(reports).errors.rest[e].count = 1
          /\ Last(reports).errors.rest[e].allStatusCodes = <<"list", <<404>>>>

\* the fields of a record other than responseStatusCode
OtherFields == {"statusCode", "requestUrl", "requestHeaders", "requestBody",
                "responseUrl", "responseHeaders", "responseBody", "responseTime"}
SameOtherFields(q, p) == \A f \in OtherFields : q[f] = p[f]
\* the records of one role in a report, the rest bucket first
RoleRecords(role) == role.rest.requests \o ConcatOperations(role.gql.operations)

\* C22: every record of a merged report has responseStatusCode equal to its
\* statusCode, whatever the trace file carried there, and is otherwise one of
\* the listed records of its role, field by field; no listed record with a body
\* is left out.
C22_StatusCodeNormalized ==
    mergeOutcome = "returned" =>
        \A r \in 1..Len(Last(reports).roles) :
            LET merged == RoleRecords(Last(reports).roles[r])
                listed == ListedOfRoleFrom(Last(reports).roles[r].key, 1)
            IN /\ Len(merged) = Len(listed)
               /\ \A k \in 1..Len(merged) :
                     /\ merged[k].responseStatusCode = Val(merged[k].statusCode)
                     /\ \E j \in 1..Len(listed) : SameOtherFields(merged[k], listed[j])
               /\ \A j \in 1..Len(listed) :
                     \E k \in 1..Len(merged) : SameOtherFields(merged[k], listed[j])

C22_Witness ==
    /\ mergeOutcome = "returned"
    /\ \E j \in 1..Len(ListedRecords) :
          /\ ListedRecords[j].responseStatusCode = Val(200)
          /\ ListedRecords[j].statusCode = 500
    /\ \E j \in 1..Len(ListedRecords) : ListedRecords[j].responseStatusCode = Null
    /\ \E j \in 1..Len(ListedRecords) : ListedRecords[j].responseStatusCode = Missing
    /\ Len(ReportRecords(Last(reports).roles)) = 3

\* the mergedMetrics.roles the last merge handed to extendJsonWithErrors
ListedFiles ==
    [n \in {readdir[k].file : k \in 1..Len(readdir)} |->
        readdir[CHOOSE k \in 1..Len(readdir) : readdir[k].file = n].fileContents]
ClassifierInput == MergeFiles(EmptyMerge, ListedFiles, ListedNames).roles
\* two values are the same as far as reading their properties tells
ReadRecord(q) ==
    [q EXCEPT !.requestBody = Read(@), !.responseBody = Read(@), !.responseStatusCode = Read(@)]
ReadRecords(qs) == [k \in 1..Len(qs) |-> ReadRecord(qs[k])]
SameRoleSection(a, b) ==
    /\ a.key = b.key
    /\ Read(a.overallInformation) = Read(b.overallInformation)
    /\ ReadRecords(a.rest.requests) = ReadRecords(b.rest.requests)
    /\ Len(a.gql.operations) = Len(b.gql.operations)
    /\ \A k \in 1..Len(a.gql.operations) :
          /\ k <= Len(b.gql.operations)
          /\ a.gql.operations[k].key = b.gql.operations[k].key
          /\ ReadRecords(a.gql.operations[k].requests) = ReadRecords(b.gql.operations[k].requests)

C24_NoRecordAfterClose ==
    \A s \in Sessions :
        closed[s] =>
            \A k \in 1..Len(collectedData[s].requests) :
                /\ HasVal(trace[s])
                /\ k <= Len(TraceRequests(s))
                /\ TraceRequests(s)[k] = JsonRecord(collectedData[s].requests[k])

\* C25: a merge call that deletes the trace files of a non-empty store has
\* written a merged report.
C25_StoreKeptUnlessReportWritten ==
    [][(merges' = merges + 1 /\ files # <<>> /\ files' = <<>>) =>
            Len(reports') = Len(reports) + 1]_vars

\* the role a session was started with
RoleOfSession(s) ==
    CHOOSE role \in Roles : \E t \in 0..MaxTime : fileName[s] = FileNameOf(role, t)
\* the trace file of the session is one the last merge listed
ListedTraceOf(s) ==
    /\ HasVal(trace[s])
    /\ \E k \in 1..Len(readdir) :
          readdir[k].file = fileName[s] /\ readdir[k].fileContents = trace[s]

\* C26: the records of a session's trace file are in the merged report under
\* the role the session was started with, and no role key of the report stands
\* for two different roles.
C26_RoleRecoveredFromFileName ==
    mergeOutcome = "returned" =>
        /\ \A s \in Sessions :
              ListedTraceOf(s) =>
                 LET r == KeyIndex(Last(reports).roles, RoleOfSession(s))
                 IN /\ r # 0
                    /\ \A k \in 1..Len(TraceRequests(s)) :
                          \E j \in 1..Len(RoleRecords(Last(reports).roles[r])) :
                              SameOtherFields(RoleRecords(Last(reports).roles[r])[j],
                                              TraceRequests(s)[k])
        /\ \A s, u \in Sessions :
              (ListedTraceOf(s) /\ ListedTraceOf(u) /\ RoleOfSession(s) # RoleOfSession(u)) =>
                  SplitRole(fileName[s]) # SplitRole(fileName[u])

RECURSIVE SumOver(_, _, _)
\* the erroring requests of an operation, counted over a set of roles
SumOver(report, name, rs) ==
    IF rs = {} THEN 0
    ELSE LET r == CHOOSE x \in rs : TRUE
         IN Len(ErroringCodes(OperationBucket(report, r, name).requests))
                + SumOver(report, name, rs \ {r})
RolesErroring(report, name) ==
    {r \in RolesOfOperation(report, name) :
        ErroringCodes(OperationBucket(report, r, name).requests) # <<>>}

\* C27: when an operation has erroring requests under two or more roles, the
\* count of its errors.gql entry is the number of its erroring requests over
\* all roles.
C27_GqlCountOverAllRoles ==
    mergeOutcome = "returned" =>
        \A e \in 1..Len(Last(reports).errors.gql) :
            LET name == Last(reports).errors.gql[e].key
            IN Cardinality(RolesErroring(Last(reports), name)) >= 2 =>
                  Last(reports).errors.gql[e].count
                      = SumOver(Last(reports), name, RolesOfOperation(Last(reports), name))

\* C28: a session never holds more records than totalRequests counts; a written
\* trace has totalRequests of at least 1 and an avgResponseTime that is the
\* quotient totalTime / totalRequests with a divisor other than zero.
C28_RecordsWithinTotalRequests ==
    \A s \in Sessions :
        /\ Len(collectedData[s].requests) <= collectedData[s].overallInformation.totalRequests
        /\ HasVal(trace[s]) =>
              /\ TraceInfo(s).totalRequests >= 1
              /\ TraceInfo(s).totalRequests >= Len(TraceRequests(s))
              /\ TraceInfo(s).avgResponseTime.den # 0
              /\ TraceInfo(s).avgResponseTime
                    = Quot(TraceInfo(s).totalTime, TraceInfo(s).totalRequests)

C28_Witness ==
    \E s \in Sessions :
        /\ HasVal(trace[s])
        /\ Len(TraceRequests(s)) = 1
        /\ TraceInfo(s).totalRequests = 2
        /\ TraceInfo(s).avgResponseTime.den = 2

\* C30: every port a call returns lies in 49152..65535 and was not reserved
\* before, usedPorts never loses a port, and no call returns once every port of
\* the range is reserved.
C30_PortsUniqueInRange ==
    [][/\ usedPorts \subseteq usedPorts'
       /\ returnedPorts' # returnedPorts =>
             /\ Len(returnedPorts') = Len(returnedPorts) + 1
             /\ Last(returnedPorts') >= 49152 /\ Last(returnedPorts') <= 65535
             /\ Last(returnedPorts') \notin usedPorts
             /\ usedPorts' = usedPorts \cup {Last(returnedPorts')}
             /\ \A k \in 1..Len(returnedPorts) : returnedPorts[k] # Last(returnedPorts')
       /\ (\A p \in 49152..65535 : p \in usedPorts) => returnedPorts' = returnedPorts]_vars

C30_Witness ==
    /\ \A p \in 49152..65535 : p \in usedPorts
    /\ portPc = "loop"
    /\ Len(returnedPorts) = 2
    /\ returnedPorts[1] # returnedPorts[2]

\* C29: once readJsonSafely or writeJsonSafely has returned, the lock on the
\* file is free.
C29_LockFreeAfterReturn == jsonPc = "idle" => ~lockHeld

====
